---------------------------- MODULE Spec2Model ----------------------------
(***************************************************************************)
(* Nomadachi (Traveler plugin): the novelty ledger, the progression        *)
(* engine and the persistence store of src/nomadachi.py as a state         *)
(* machine.  One Traveler instance, its backing document                   *)
(* /root/pwn_traveler.json, the thread that delivers plugin events         *)
(* ("main") and one more thread of the host that may call save ("aux").    *)
(*                                                                         *)
(* Encoding of Python values:                                              *)
(*   a string that the code splits on ':' (a BSSID, an OUI) is the tuple   *)
(*   of its octets, "" is <<>>; None is <<>> as well (both are falsy);     *)
(*   a place key is the tuple of the parts its f-string joins;             *)
(*   a latitude/longitude is [inf |-> FALSE, v |-> 1/100000 degree] or the *)
(*   float infinity that json.load accepts, [inf |-> TRUE, v |-> 0];       *)
(*   a JSON array is a sequence, JSON null is <<"null">>.                  *)
(*                                                                         *)
(* Specifications:                                                         *)
(*   Spec, FairSpec  both threads, restarts, migration, write failures;    *)
(*   LoadSpec        the event thread and documents not written by save;   *)
(*   SurveySpec      handshakes without GPS over the channel ranges;       *)
(*   GridSpec        handshakes with GPS over three grid sizes;            *)
(*   ProgressSpec    _add_xp alone over four title tables.                 *)
(***************************************************************************)
EXTENDS Integers, Sequences, FiniteSets, TLC

VARIABLES
    travel_xp,          \* self.travel_xp
    travel_level,       \* self.travel_level
    unique_essids,      \* self.unique_essids
    unique_bssids,      \* self.unique_bssids
    unique_ouis,        \* self.unique_ouis
    unique_bands,       \* self.unique_bands
    place_hashes,       \* self.place_hashes
    last_place_hash,    \* self.last_place_hash
    titles,             \* self.titles: threshold -> title
    options,            \* the xp_* rewards, travel_grid, strict_nogps_places
    doc,                \* the file at self.data_path
    data_lock,          \* self.data_lock: "free" or the thread holding it
    pc,                 \* where each thread stands
    payload             \* save()'s local payload, per thread

memVars == <<travel_xp, travel_level, unique_essids, unique_bssids,
             unique_ouis, unique_bands, place_hashes, last_place_hash>>
cfgVars == <<titles, options>>
vars == <<travel_xp, travel_level, unique_essids, unique_bssids,
          unique_ouis, unique_bands, place_hashes, last_place_hash,
          titles, options, doc, data_lock, pc, payload>>

Threads == {"main", "aux"}

None == <<>>
JNull == <<"null">>

-----------------------------------------------------------------------------
(* Generic helpers *)

Max(a, b) == IF a >= b THEN a ELSE b

Min(a, b) == IF a <= b THEN a ELSE b

Range(s) == {s[i] : i \in 1..Len(s)}

\* list(a_set): some enumeration of the members, each once.
RECURSIVE SetToSeq(_)
SetToSeq(S) ==
    IF S = {} THEN <<>>
    ELSE LET x == CHOOSE y \in S : TRUE
         IN  <<x>> \o SetToSeq(S \ {x})

\* dict.get(key, default)
Get(d, key, default) == IF key \in DOMAIN d THEN d[key] ELSE default

-----------------------------------------------------------------------------
(* Configuration *)

DEFAULT_TITLES ==
    (0 :> "Homebody") @@ (200 :> "Wanderling") @@ (600 :> "City Stroller") @@
    (1200 :> "Road Warrior") @@ (2400 :> "Jetsetter") @@ (4800 :> "Globetrotter")

\* A titles table given in the configuration (on_loaded, titles option).
CustomTitles == (0 :> "Homebody") @@ (4 :> "Walker") @@ (20 :> "Rover")


\* __init__'s tuning values; travel_grid 0.01 degree is 1000 units of
\* 1/100000 degree.
DefaultOptions ==
    [xp_essid |-> 2, xp_bssid |-> 1, xp_oui |-> 1, xp_band |-> 2,
     xp_place |-> 10, travel_grid |-> 1000, strict_nogps_places |-> TRUE]

\* on_loaded: rewards overridden by the configuration (any integer is taken).
TunedOptions ==
    [xp_essid |-> 0, xp_bssid |-> 1, xp_oui |-> 1, xp_band |-> -2,
     xp_place |-> 10, travel_grid |-> 1000, strict_nogps_places |-> TRUE]

\* The configurations the model starts from: <<titles, options>>.
Configs == {<<DEFAULT_TITLES, DefaultOptions>>, <<CustomTitles, TunedOptions>>}

-----------------------------------------------------------------------------
(* The in-memory state of the instance as one record *)

Mem ==
    [travel_xp |-> travel_xp, travel_level |-> travel_level,
     unique_essids |-> unique_essids, unique_bssids |-> unique_bssids,
     unique_ouis |-> unique_ouis, unique_bands |-> unique_bands,
     place_hashes |-> place_hashes, last_place_hash |-> last_place_hash]

\* __init__: the fields of a fresh instance.
FreshMem ==
    [travel_xp |-> 0, travel_level |-> 0,
     unique_essids |-> {}, unique_bssids |-> {},
     unique_ouis |-> {}, unique_bands |-> {},
     place_hashes |-> {}, last_place_hash |-> None]

SetMem(m) ==
    /\ travel_xp' = m.travel_xp
    /\ travel_level' = m.travel_level
    /\ unique_essids' = m.unique_essids
    /\ unique_bssids' = m.unique_bssids
    /\ unique_ouis' = m.unique_ouis
    /\ unique_bands' = m.unique_bands
    /\ place_hashes' = m.place_hashes
    /\ last_place_hash' = m.last_place_hash

SetFields == {"unique_essids", "unique_bssids", "unique_ouis",
              "unique_bands", "place_hashes"}

-----------------------------------------------------------------------------
(* Band Classifier *)

\* int(channel): a channel is <<"int", n>> or <<"str", text>>; of the texts
\* the model uses only "0" is a numeral.
Numerals == ("0" :> 0)

IntParses(channel) ==
    \/ channel[1] = "int"
    \/ channel[1] = "str" /\ channel[2] \in DOMAIN Numerals

IntOf(channel) ==
    IF channel[1] = "int" THEN channel[2] ELSE Numerals[channel[2]]

Enumerated5 == {36, 40, 44, 48, 149, 153, 157, 161, 165}

\* Mutant of channel_to_band: only the enumerated channels are 5 GHz.
channel_to_band_EnumeratedOnly(channel) ==
    IF ~IntParses(channel) THEN "unk"
    ELSE LET ch == IntOf(channel)
         IN  IF 1 <= ch /\ ch <= 14 THEN "2.4"
             ELSE IF ch \in Enumerated5 THEN "5"
             ELSE IF 1 <= ch - 191 /\ ch - 191 <= 59 THEN "6"
             ELSE "unk"

channel_to_band(channel) ==
    IF ~IntParses(channel) THEN "unk"
    ELSE LET ch == IntOf(channel)
         IN  IF 1 <= ch /\ ch <= 14 THEN "2.4"
             ELSE IF (32 <= ch /\ ch <= 173) \/ ch \in Enumerated5 THEN "5"
             ELSE IF 1 <= ch - 191 /\ ch - 191 <= 59 THEN "6"
             ELSE "unk"

-----------------------------------------------------------------------------
(* Place Identity Resolver *)

\* Python's round(n / d) for integers n, d with d # 0: to the nearest
\* integer, a tie to the even one.
RoundDiv(n, d) ==
    LET nn == IF d < 0 THEN -n ELSE n
        dd == IF d < 0 THEN -d ELSE d
        q  == nn \div dd
        r  == nn % dd
    IN  IF 2 * r < dd THEN q
        ELSE IF 2 * r > dd THEN q + 1
        ELSE IF q % 2 = 0 THEN q ELSE q + 1

\* A coordinate is [inf |-> FALSE, v |-> units of 1/100000 degree] or the
\* float infinity [inf |-> TRUE, v |-> 0].  round() raises OverflowError on
\* an infinity and the division raises ZeroDivisionError on a grid of 0.
QuantizeRaises(lat, lon, g) == g = 0 \/ lat.inf \/ lon.inf

\* f"{x:.4f}" of x = v/100000: the sign and the digits, rounded to four
\* decimals (1/10000 degree).  A negative x that rounds to zero prints as
\* "-0.0000".
Fixed4(v) ==
    [neg |-> v < 0, digits |-> RoundDiv(IF v < 0 THEN 0 - v ELSE v, 10)]

\* Mutant of quantize_ll: the longitude is left out of the key.
quantize_ll_LatitudeOnly(lat, lon, g) ==
    <<"ll", Fixed4(RoundDiv(lat.v, g) * g), Fixed4(0)>>

\* round(lat / g) * g and round(lon / g) * g, formatted with four decimals.
quantize_ll(lat, lon, g) ==
    <<"ll", Fixed4(RoundDiv(lat.v, g) * g), Fixed4(RoundDiv(lon.v, g) * g)>>

\* bssid.lower(): octet by octet.
LowerOctet ==
    ("AA" :> "aa") @@ ("BB" :> "bb") @@ ("CC" :> "cc") @@ ("DD" :> "dd")

Lower(bssid) ==
    [i \in 1..Len(bssid) |->
        IF bssid[i] \in DOMAIN LowerOctet THEN LowerOctet[bssid[i]] ELSE bssid[i]]

\* ':'.join(bssid.split(':')[:3]) if bssid and ':' in bssid else <otherwise>
OuiOf(bssid, otherwise) ==
    IF bssid # <<>> /\ Len(bssid) >= 2
    THEN SubSeq(bssid, 1, Min(3, Len(bssid)))
    ELSE otherwise

\* f"{ch}": the text of the raw channel value.
ChannelText(channel) ==
    IF IntParses(channel) THEN <<"num", IntOf(channel)>> ELSE <<"raw", channel[2]>>

\* gps is what _try_read_gps returned: [fix |-> FALSE] for None, else
\* [fix |-> TRUE, lat |-> .., lon |-> ..].
NoFix == [fix |-> FALSE]

PlaceRaises(opt, gps) ==
    gps.fix /\ QuantizeRaises(gps.lat, gps.lon, opt.travel_grid)

\* Mutant of compute_place_hash: strict_nogps_places is ignored, the legacy
\* key is used whenever there is no position.
compute_place_hash_Legacy(opt, ap, gps) ==
    IF gps.fix THEN quantize_ll(gps.lat, gps.lon, opt.travel_grid)
    ELSE LET ch    == Get(ap, "channel", <<"str", "0">>)
             band  == channel_to_band(ch)
             bssid == Lower(Get(ap, "bssid", <<>>))
             oui   == OuiOf(bssid, <<"no", "ou", "i">>)
         IN  <<oui, band, ChannelText(ch)>>

compute_place_hash(opt, ap, gps) ==
    IF gps.fix THEN quantize_ll(gps.lat, gps.lon, opt.travel_grid)
    ELSE LET ch   == Get(ap, "channel", <<"str", "0">>)
             band == channel_to_band(ch)
         IN  IF opt.strict_nogps_places THEN <<"nogps", band>>
             ELSE LET bssid == Lower(Get(ap, "bssid", <<>>))
                      oui   == OuiOf(bssid, <<"no", "ou", "i">>)
                  IN  <<oui, band, ChannelText(ch)>>

-----------------------------------------------------------------------------
(* Progression Engine *)

recalc_level(xp, tt) ==
    LET lvl == Cardinality({t \in DOMAIN tt : xp >= t})
    IN  Max(0, lvl - 1)

\* _add_xp on the state record m.
add_xp(m, xp, tt) ==
    IF xp <= 0 THEN m
    ELSE [m EXCEPT !.travel_xp = m.travel_xp + xp,
                   !.travel_level = recalc_level(m.travel_xp + xp, tt)]

\* sorted(keys): the members of S in ascending order.
RECURSIVE Sorted(_)
Sorted(S) ==
    IF S = {} THEN <<>>
    ELSE LET lo == CHOOSE x \in S : \A y \in S : x <= y
         IN  <<lo>> \o Sorted(S \ {lo})

\* sorted(keys, reverse=True)
SortedReverse(S) ==
    LET up == Sorted(S)
    IN  [i \in 1..Len(up) |-> up[Len(up) + 1 - i]]

\* The first position of the scan among hits, the positions at which the
\* loop's test holds; 0 if the loop runs to its end.
FirstOf(hits) ==
    IF hits = {} THEN 0
    ELSE CHOOSE i \in hits : \A j \in hits : i <= j

\* Mutant of get_title: the thresholds are scanned in ascending order.
get_title_Ascending(xp, tt) ==
    LET keys == Sorted(DOMAIN tt)
        i == FirstOf({j \in 1..Len(keys) : xp >= keys[j]})
    IN  IF i # 0 THEN tt[keys[i]] ELSE Get(tt, 0, "Homebody")

get_title(xp, tt) ==
    LET keys == SortedReverse(DOMAIN tt)
        i == FirstOf({j \in 1..Len(keys) : xp >= keys[j]})
    IN  IF i # 0 THEN tt[keys[i]] ELSE Get(tt, 0, "Homebody")

\* Mutant of prev_next_thresholds: the scan stops at a threshold equal to
\* the experience as well.
prev_next_thresholds_Inclusive(xp, tt) ==
    LET keys == Sorted(DOMAIN tt)
        i == FirstOf({j \in 1..Len(keys) : xp <= keys[j]})
    IN  IF i # 0
        THEN [prev |-> IF i = 1 THEN <<>> ELSE <<keys[i - 1]>>,
              next |-> <<keys[i]>>]
        ELSE [prev |-> IF keys = <<>> THEN <<>> ELSE <<keys[Len(keys)]>>,
              next |-> <<>>]

\* The pair (prev_t, t) returned; a threshold is <<t>> and None is <<>>.
prev_next_thresholds(xp, tt) ==
    LET keys == Sorted(DOMAIN tt)
        i == FirstOf({j \in 1..Len(keys) : xp < keys[j]})
    IN  IF i # 0
        THEN [prev |-> IF i = 1 THEN <<>> ELSE <<keys[i - 1]>>,
              next |-> <<keys[i]>>]
        ELSE [prev |-> IF keys = <<>> THEN <<>> ELSE <<keys[Len(keys)]>>,
              next |-> <<>>]

-----------------------------------------------------------------------------
(* Novelty Ledger: on_handshake on the state record m *)

\* Mutant of FirstSeen: the membership test left out, every attribute
\* counts as first-seen.
FirstSeen_NoTest(x, seen) == TRUE

\* "x not in self.unique_..." : the gate of each award.
FirstSeen(x, seen) == x \notin seen

\* Mutant of ShouldSave: ">=" for ">".
ShouldSave_NonNegative(gained) == gained >= 0

\* "if gained > 0:" before _add_xp and save.
ShouldSave(gained) == gained > 0

\* Mutant of AttributeChecks: the band unk is treated as no band at all.
AttributeChecks_SkipUnknownBand(m, opt, ap) ==
    LET essid == Get(ap, "essid", "unknown")
        bssid == Lower(Get(ap, "bssid", <<>>))
        oui   == OuiOf(bssid, None)
        band  == channel_to_band(Get(ap, "channel", <<"str", "0">>))
        newE  == FirstSeen(essid, m.unique_essids)
        newB  == bssid # <<>> /\ FirstSeen(bssid, m.unique_bssids)
        newO  == oui # None /\ FirstSeen(oui, m.unique_ouis)
        newBd == band # "unk" /\ FirstSeen(band, m.unique_bands)
    IN  [mem |->
            [m EXCEPT
                !.unique_essids = IF newE THEN @ \cup {essid} ELSE @,
                !.unique_bssids = IF newB THEN @ \cup {bssid} ELSE @,
                !.unique_ouis   = IF newO THEN @ \cup {oui} ELSE @,
                !.unique_bands  = IF newBd THEN @ \cup {band} ELSE @],
         gained |->
              (IF newE THEN opt.xp_essid ELSE 0)
            + (IF newB THEN opt.xp_bssid ELSE 0)
            + (IF newO THEN opt.xp_oui ELSE 0)
            + (IF newBd THEN opt.xp_band ELSE 0)]

\* The four attribute checks (lines 248-259), in the order of the code.
\* Returns the state and the local gained after them.
AttributeChecks(m, opt, ap) ==
    LET essid == Get(ap, "essid", "unknown")
        bssid == Lower(Get(ap, "bssid", <<>>))
        oui   == OuiOf(bssid, None)
        band  == channel_to_band(Get(ap, "channel", <<"str", "0">>))
        newE  == FirstSeen(essid, m.unique_essids)
        newB  == bssid # <<>> /\ FirstSeen(bssid, m.unique_bssids)
        newO  == oui # None /\ FirstSeen(oui, m.unique_ouis)
        newBd == band # "" /\ FirstSeen(band, m.unique_bands)
    IN  [mem |->
            [m EXCEPT
                !.unique_essids = IF newE THEN @ \cup {essid} ELSE @,
                !.unique_bssids = IF newB THEN @ \cup {bssid} ELSE @,
                !.unique_ouis   = IF newO THEN @ \cup {oui} ELSE @,
                !.unique_bands  = IF newBd THEN @ \cup {band} ELSE @],
         gained |->
              (IF newE THEN opt.xp_essid ELSE 0)
            + (IF newB THEN opt.xp_bssid ELSE 0)
            + (IF newO THEN opt.xp_oui ELSE 0)
            + (IF newBd THEN opt.xp_band ELSE 0)]

\* Mutant of PlaceCheck: the place is awarded and recorded as the last
\* place but never added to place_hashes.
PlaceCheck_NoInsert(a, opt, ap, gps) ==
    LET place == compute_place_hash(opt, ap, gps)
    IN  IF FirstSeen(place, a.mem.place_hashes)
        THEN [mem |-> [a.mem EXCEPT !.last_place_hash = place],
              gained |-> a.gained + opt.xp_place]
        ELSE a

\* The place check (lines 261-265) on the state and gained so far.
PlaceCheck(a, opt, ap, gps) ==
    LET place == compute_place_hash(opt, ap, gps)
    IN  IF FirstSeen(place, a.mem.place_hashes)
        THEN [mem |-> [a.mem EXCEPT !.place_hashes = @ \cup {place},
                                    !.last_place_hash = place],
              gained |-> a.gained + opt.xp_place]
        ELSE a

\* The whole handler.  raised: an exception left the evaluation (here: out of
\* _compute_place_hash) and was logged by the handler's except clause;
\* gained: the local gained when the handler ended; save: save() was called.
OnHandshakeResult(m, opt, tt, ap, gps) ==
    LET a == AttributeChecks(m, opt, ap)
    IN  IF PlaceRaises(opt, gps)
        THEN [mem |-> a.mem, gained |-> a.gained, raised |-> TRUE, save |-> FALSE]
        ELSE LET b == PlaceCheck(a, opt, ap, gps)
             IN  IF ShouldSave(b.gained)
                 THEN [mem |-> add_xp(b.mem, b.gained, tt), gained |-> b.gained,
                       raised |-> FALSE, save |-> TRUE]
                 ELSE [mem |-> b.mem, gained |-> b.gained,
                       raised |-> FALSE, save |-> FALSE]

-----------------------------------------------------------------------------
(* Persistence Store *)

\* The backing document is absent, a JSON object (body: key -> value), empty
\* (opened with 'w', nothing written yet) or partial (a prefix of a dump).
Absent == [kind |-> "absent"]

Truncated == [kind |-> "empty"]

Partial == [kind |-> "partial"]

ToJson(v) == IF v = None THEN JNull ELSE v

FromJson(v) == IF v = JNull THEN None ELSE v

\* Mutant of Payload: unique_bands left out of the payload.
Payload_NoBands(m) ==
    [kind |-> "json",
     body |->
        [travel_xp |-> m.travel_xp,
         travel_level |-> m.travel_level,
         unique_essids |-> SetToSeq(m.unique_essids),
         unique_bssids |-> SetToSeq(m.unique_bssids),
         unique_ouis |-> SetToSeq(m.unique_ouis),
         place_hashes |-> SetToSeq(m.place_hashes),
         last_place_hash |-> ToJson(m.last_place_hash)]]

\* save(): the payload built from the instance (lines 295-304), as json.dump
\* writes it and json.load reads it back.
Payload(m) ==
    [kind |-> "json",
     body |->
        [travel_xp |-> m.travel_xp,
         travel_level |-> m.travel_level,
         unique_essids |-> SetToSeq(m.unique_essids),
         unique_bssids |-> SetToSeq(m.unique_bssids),
         unique_ouis |-> SetToSeq(m.unique_ouis),
         unique_bands |-> SetToSeq(m.unique_bands),
         place_hashes |-> SetToSeq(m.place_hashes),
         last_place_hash |-> ToJson(m.last_place_hash)]]

\* The keys of a JSON document whose value the conversion in load() raises
\* on: int() of null or of a word, set() of a number or of null.  Documents
\* written by save() have none.
Malformed(d) == Get(d, "bad", {})

\* The order in which load() assigns the fields (lines 283-290).
LoadOrder ==
    << "travel_xp", "travel_level", "unique_essids", "unique_bssids",
       "unique_ouis", "unique_bands", "place_hashes", "last_place_hash" >>

\* Field i of LoadOrder is assigned: no conversion up to it has raised.
Assigned(d, i) == \A j \in 1..i : LoadOrder[j] \notin Malformed(d)

\* load() on an instance in state m with the backing document d.  A document
\* that does not exist leaves m; json.load raises on an empty or partial one
\* and the except clause logs it.  The fields are assigned one statement at a
\* time inside the try block, so a conversion that raises leaves the fields
\* before it assigned and the fields from it on as they were.
LoadResult(m, d) ==
    IF d.kind # "json" THEN m
    ELSE [travel_xp |->
              IF Assigned(d, 1) THEN Get(d.body, "travel_xp", 0)
              ELSE m.travel_xp,
          travel_level |->
              IF Assigned(d, 2) THEN Get(d.body, "travel_level", 0)
              ELSE m.travel_level,
          unique_essids |->
              IF Assigned(d, 3) THEN Range(Get(d.body, "unique_essids", <<>>))
              ELSE m.unique_essids,
          unique_bssids |->
              IF Assigned(d, 4) THEN Range(Get(d.body, "unique_bssids", <<>>))
              ELSE m.unique_bssids,
          unique_ouis |->
              IF Assigned(d, 5) THEN Range(Get(d.body, "unique_ouis", <<>>))
              ELSE m.unique_ouis,
          unique_bands |->
              IF Assigned(d, 6) THEN Range(Get(d.body, "unique_bands", <<>>))
              ELSE m.unique_bands,
          place_hashes |->
              IF Assigned(d, 7) THEN Range(Get(d.body, "place_hashes", <<>>))
              ELSE m.place_hashes,
          last_place_hash |->
              IF Assigned(d, 7)
              THEN FromJson(Get(d.body, "last_place_hash", JNull))
              ELSE m.last_place_hash]

-----------------------------------------------------------------------------
(* Migration from the Age plugin's document *)

\* key_map: legacy key -> attribute, "" for None (not used here).
key_map ==
    [travel_xp |-> "travel_xp", travel_level |-> "travel_level",
     unique_essids |-> "unique_essids", unique_bssids |-> "unique_bssids",
     unique_ouis |-> "unique_ouis", unique_channels |-> "",
     unique_bands |-> "unique_bands", place_hashes |-> "place_hashes",
     last_place_hash |-> "last_place_hash"]

\* Mutant of Falsy: the "not getattr(self, dst_k)" test left out.
Falsy_NoTest(m, k) == TRUE

\* "not getattr(self, dst_k)"
Falsy(m, k) ==
    IF k \in SetFields THEN m[k] = {}
    ELSE IF k = "last_place_hash" THEN m[k] = None
    ELSE m[k] = 0

\* "if src_k in d and not getattr(self, dst_k)" for a key with an attribute.
Copies(m, d, src_k) ==
    /\ key_map[src_k] # ""
    /\ src_k \in DOMAIN d
    /\ Falsy(m, key_map[src_k])

\* The attribute dst_k after the loop; d is the parsed legacy document.
Migrated(m, d, dst_k) ==
    LET from == {s \in DOMAIN key_map : key_map[s] = dst_k /\ Copies(m, d, s)}
    IN  IF from = {} THEN m[dst_k]
        ELSE LET src_k == CHOOSE s \in from : TRUE
             IN  IF dst_k \in SetFields THEN m[dst_k] \cup Range(d[src_k])
                 ELSE d[src_k]

try_migrate_from_age_json(m, d) ==
    [mem |->
        [travel_xp |-> Migrated(m, d, "travel_xp"),
         travel_level |-> Migrated(m, d, "travel_level"),
         unique_essids |-> Migrated(m, d, "unique_essids"),
         unique_bssids |-> Migrated(m, d, "unique_bssids"),
         unique_ouis |-> Migrated(m, d, "unique_ouis"),
         unique_bands |-> Migrated(m, d, "unique_bands"),
         place_hashes |-> Migrated(m, d, "place_hashes"),
         last_place_hash |-> Migrated(m, d, "last_place_hash")],
     mutated |-> \E s \in DOMAIN key_map : Copies(m, d, s)]

-----------------------------------------------------------------------------
(* Inputs *)

\* The access points of handshakes, args[2] of on_handshake.
AllAPs ==
    << [essid |-> "home", bssid |-> <<"AA", "BB", "CC", "01">>, channel |-> <<"int", 6>>],
       [essid |-> "cafe"],
       [essid |-> "cafe", bssid |-> <<"aa", "bb", "cc", "01">>, channel |-> <<"str", "x">>],
       [essid |-> "home", bssid |-> <<"aa", "bb", "cc", "02">>, channel |-> <<"int", 40>>],
       [essid |-> "lab", bssid |-> <<"DD", "01">>, channel |-> <<"int", 200>>] >>

\* How many of them the model delivers.
MaxAPs == 2

APs == {AllAPs[i] : i \in 1..Min(MaxAPs, Len(AllAPs))}

Coord(v) == [inf |-> FALSE, v |-> v]

Infinity == [inf |-> TRUE, v |-> 0]

\* What _try_read_gps returns: no fix, a position, a document holding
\* {"lat": Infinity}.
Fixes ==
    { NoFix,
      [fix |-> TRUE, lat |-> Coord(3777400), lon |-> Coord(-12241900)],
      [fix |-> TRUE, lat |-> Infinity, lon |-> Coord(-12241900)] }

\* /root/age_strength.json as json.load returns it, when it exists.
LegacyDocs ==
    << [travel_xp |-> 199, travel_level |-> 3,
        unique_essids |-> <<"home", "legacy">>,
        unique_channels |-> <<"1", "6">>,
        last_place_hash |-> <<"nogps", "5">>] >>

\* Documents at data_path that save() did not write (edited by hand, left by
\* another tool): {"travel_xp": 31, "travel_level": 0,
\* "unique_essids": ["home"], "unique_bssids": 5, "unique_bands": ["2.4"]}.
\* The malformed value is named in bad and left out of body.
ForeignDocs ==
    << [kind |-> "json",
        body |-> [travel_xp |-> 31, travel_level |-> 0,
                  unique_essids |-> <<"home">>,
                  unique_bands |-> <<"2.4">>],
        bad |-> {"unique_bssids"}] >>

-----------------------------------------------------------------------------
(* The state machine *)

\* __init__ and the options read by on_loaded, with the configuration one of
\* cs; no document yet.
Boot(cs) ==
    /\ travel_xp = 0
    /\ travel_level = 0
    /\ unique_essids = {}
    /\ unique_bssids = {}
    /\ unique_ouis = {}
    /\ unique_bands = {}
    /\ place_hashes = {}
    /\ last_place_hash = None
    /\ \E c \in cs : titles = c[1] /\ options = c[2]
    /\ doc = Absent
    /\ data_lock = "free"
    /\ pc = [t \in Threads |-> IF t = "main" THEN "load" ELSE "idle"]
    /\ payload = [t \in Threads |-> Absent]

Init == Boot(Configs)

\* save(), up to the lock: thread t builds its payload from the instance.
EnterSave(t, m) ==
    /\ payload' = [payload EXCEPT ![t] = Payload(m)]
    /\ pc' = [pc EXCEPT ![t] = "wait"]

\* While the plugin is not running, the file at data_path is replaced by a
\* document d from elsewhere; load() reads whatever it finds there.
ForeignDocument(d) ==
    /\ pc["main"] = "load"
    /\ doc' = d
    /\ UNCHANGED <<memVars, cfgVars, data_lock, pc, payload>>

\* on_loaded, first part: self.load().
Load ==
    /\ pc["main"] = "load"
    /\ SetMem(LoadResult(Mem, doc))
    /\ pc' = [pc EXCEPT !["main"] = "migrate"]
    /\ UNCHANGED <<cfgVars, doc, data_lock, payload>>

\* on_loaded, second part: _try_migrate_from_age_json with the legacy
\* document d; it saves when anything was copied.
Migrate(d) ==
    /\ pc["main"] = "migrate"
    /\ LET r == try_migrate_from_age_json(Mem, d)
       IN  /\ SetMem(r.mem)
           /\ IF r.mutated
              THEN EnterSave("main", r.mem)
              ELSE /\ pc' = [pc EXCEPT !["main"] = "idle"]
                   /\ UNCHANGED payload
    /\ UNCHANGED <<cfgVars, doc, data_lock>>

\* on_loaded, second part, when there is no legacy document (or
\* migrate_from_age is off): nothing is copied.
MigrateNothing ==
    /\ pc["main"] = "migrate"
    /\ pc' = [pc EXCEPT !["main"] = "idle"]
    /\ UNCHANGED <<memVars, cfgVars, doc, data_lock, payload>>

\* on_handshake(agent, filename, client, ap) with gps the position the
\* candidate files give.
OnHandshake(ap, gps) ==
    /\ pc["main"] = "idle"
    /\ LET r == OnHandshakeResult(Mem, options, titles, ap, gps)
       IN  /\ SetMem(r.mem)
           /\ IF r.save
              THEN EnterSave("main", r.mem)
              ELSE UNCHANGED <<pc, payload>>
    /\ UNCHANGED <<cfgVars, doc, data_lock>>

\* Another thread of the host calls save(), once on_loaded has returned.
SaveCall(t) ==
    /\ t # "main"
    /\ pc[t] = "idle"
    /\ pc["main"] \notin {"load", "migrate"}
    /\ EnterSave(t, Mem)
    /\ UNCHANGED <<memVars, cfgVars, doc, data_lock>>

\* Mutant of Acquire: the thread enters without waiting for the lock.
Acquire_NoWait(t) ==
    /\ pc[t] = "wait"
    /\ data_lock' = t
    /\ pc' = [pc EXCEPT ![t] = "locked"]
    /\ UNCHANGED <<memVars, cfgVars, doc, payload>>

\* "with self.data_lock:"
Acquire(t) ==
    /\ pc[t] = "wait"
    /\ data_lock = "free"
    /\ data_lock' = t
    /\ pc' = [pc EXCEPT ![t] = "locked"]
    /\ UNCHANGED <<memVars, cfgVars, doc, payload>>

\* Leaving the with block, on every path out of it.
Release(t) ==
    /\ data_lock' = "free"
    /\ pc' = [pc EXCEPT ![t] = "idle"]
    /\ payload' = [payload EXCEPT ![t] = Absent]

\* open(self.data_path, 'w'): the file is created or truncated.
Open(t) ==
    /\ pc[t] = "locked"
    /\ doc' = Truncated
    /\ pc' = [pc EXCEPT ![t] = "opened"]
    /\ UNCHANGED <<memVars, cfgVars, data_lock, payload>>

\* open raises (the except clause logs it): the file is as it was.
OpenFails(t) ==
    /\ pc[t] = "locked"
    /\ Release(t)
    /\ UNCHANGED <<memVars, cfgVars, doc>>

\* json.dump(payload, f, indent=2) writes the whole document.
WriteOk(t) ==
    /\ pc[t] = "opened"
    /\ doc' = payload[t]
    /\ Release(t)
    /\ UNCHANGED <<memVars, cfgVars>>

\* json.dump raises part-way (the except clause logs it).
WriteFails(t) ==
    /\ pc[t] = "opened"
    /\ doc' = Partial
    /\ Release(t)
    /\ UNCHANGED <<memVars, cfgVars>>

\* The process ends at any point and the plugin is constructed again:
\* __init__ on a new instance; the document stays as the old process left it.
Restart ==
    /\ SetMem(FreshMem)
    /\ data_lock' = "free"
    /\ pc' = [t \in Threads |-> IF t = "main" THEN "load" ELSE "idle"]
    /\ payload' = [t \in Threads |-> Absent]
    /\ UNCHANGED <<cfgVars, doc>>

Next ==
    \/ Load
    \/ \E i \in 1..Len(LegacyDocs) : Migrate(LegacyDocs[i])
    \/ MigrateNothing
    \/ \E ap \in APs, gps \in Fixes : OnHandshake(ap, gps)
    \/ \E t \in Threads :
          SaveCall(t) \/ Acquire(t) \/ Open(t) \/ OpenFails(t)
          \/ WriteOk(t) \/ WriteFails(t)
    \/ Restart

Spec == Init /\ [][Next]_vars

-----------------------------------------------------------------------------
(* Properties *)

NoveltySets == [k \in SetFields |-> Mem[k]]

InSave(t) == pc[t] \in {"wait", "locked", "opened"}

InCriticalSection(t) == pc[t] \in {"locked", "opened"}

\* C1: recording the same encounter twice (same access point, same position
\* context) awards experience only on the first on_handshake call: after any
\* on_handshake step, the same call again gains 0, leaves the five novelty
\* sets, lastPlace, experience and level as they are and does not save.
C1_SecondCallIsNeutral ==
    [][\A ap \in APs, gps \in Fixes :
          OnHandshake(ap, gps) =>
            LET again == OnHandshakeResult(Mem', options', titles', ap, gps)
            IN  /\ again.gained = 0
                /\ again.mem = Mem'
                /\ ~again.save]_vars

\* C1 witness: an encounter has been scored (experience awarded, a place
\* minted, its save begun) and repeating an encounter now gains nothing.
C1_Witness ==
    /\ travel_xp > 0
    /\ place_hashes # {}
    /\ pc["main"] = "wait"
    /\ \E ap \in APs, gps \in Fixes :
          LET again == OnHandshakeResult(Mem, options, titles, ap, gps)
          IN  ~again.raised /\ again.gained = 0 /\ again.mem = Mem

\* C2: on_handshake is applied atomically: a call whose evaluation fails
\* (an exception out of the place resolution) leaves all five novelty sets
\* as they were before the call.
C2_FailedCallMutatesNothing ==
    [][\A ap \in APs, gps \in Fixes :
          (OnHandshake(ap, gps)
             /\ OnHandshakeResult(Mem, options, titles, ap, gps).raised)
          => NoveltySets' = NoveltySets]_vars

\* C3: in every reachable state the level is the function of the experience
\* and the title table: max(0, |{t : t <= travel_xp}| - 1).
C3_LevelIsFunctionOfExperience ==
    travel_level = Max(0, Cardinality({t \in DOMAIN titles : t <= travel_xp}) - 1)

\* C4: experience and level never decrease over calls of addExperience
\* (made by on_handshake), from any state the plugin can be in.
C4_ExperienceAndLevelMonotone ==
    [][\A ap \in APs, gps \in Fixes :
          OnHandshake(ap, gps) =>
            /\ travel_xp' >= travel_xp
            /\ travel_level' >= travel_level]_vars

\* The attributes of an encounter that the ledger tests, per novelty set:
\* the set of values (none or one) the encounter offers to that set.  The
\* place is offered only when its resolution returns.
Offered(opt, ap, gps) ==
    LET bssid == Lower(Get(ap, "bssid", <<>>))
        oui   == OuiOf(bssid, None)
    IN  [unique_essids |-> {Get(ap, "essid", "unknown")},
         unique_bssids |-> IF bssid = <<>> THEN {} ELSE {bssid},
         unique_ouis   |-> IF oui = None THEN {} ELSE {oui},
         unique_bands  |-> {channel_to_band(Get(ap, "channel", <<"str", "0">>))},
         place_hashes  |-> IF PlaceRaises(opt, gps) THEN {}
                           ELSE {compute_place_hash(opt, ap, gps)}]

Reward(opt) ==
    [unique_essids |-> opt.xp_essid, unique_bssids |-> opt.xp_bssid,
     unique_ouis |-> opt.xp_oui, unique_bands |-> opt.xp_band,
     place_hashes |-> opt.xp_place]

RECURSIVE SumOver(_, _)
SumOver(f, S) ==
    IF S = {} THEN 0
    ELSE LET k == CHOOSE x \in S : TRUE
         IN  f[k] + SumOver(f, S \ {k})

\* C5: the five novelty sets only grow: no step of the running plugin
\* (on_handshake, load, migration, save) removes a member; only a new
\* process starts from empty sets.  And membership is the sole gate of an
\* award: in an on_handshake call an offered attribute adds its category's
\* reward to the call's gain exactly when it was not a member before the
\* call, and it is a member afterwards.
C5_SetsGrowAndMembershipGates ==
    [][/\ Restart \/ \A k \in SetFields : Mem[k] \subseteq Mem'[k]
       /\ \A ap \in APs, gps \in Fixes :
             OnHandshake(ap, gps) =>
               LET r     == OnHandshakeResult(Mem, options, titles, ap, gps)
                   off   == Offered(options, ap, gps)
                   first == {k \in SetFields : off[k] \ Mem[k] # {}}
                   due   == SumOver(Reward(options), first)
               IN  /\ r.gained = due
                   /\ \A k \in SetFields : Mem'[k] = Mem[k] \cup off[k]
                   /\ travel_xp' = travel_xp +
                         (IF ~r.raised /\ due > 0 THEN due ELSE 0)]_vars

\* C5 witness: a scored encounter behind us (a band and a place are members,
\* experience was awarded) and more than one essid recorded.
C5_Witness ==
    /\ Cardinality(unique_essids) >= 2
    /\ unique_bands # {}
    /\ place_hashes # {}
    /\ travel_xp > 0
    /\ pc["main"] = "idle"

\* C6: the store holds the state as one atomic document: once a snapshot
\* has been persisted, the backing document is at every later point in time
\* a complete snapshot (the previous one or the new one), never an empty or
\* partial one, also while a save writes and when its write fails.
C6_PersistedSnapshotStaysComplete ==
    [][doc.kind = "json" => doc'.kind = "json"]_vars

\* The scheduling of save: a thread that waits for the lock gets it at one of
\* the releases, and a thread inside the with block runs on.
FairSpec ==
    /\ Spec
    /\ \A t \in Threads :
          /\ SF_vars(Acquire(t))
          /\ WF_vars(Open(t) \/ OpenFails(t))
          /\ WF_vars(WriteOk(t) \/ WriteFails(t))

C8_SaveIffGain ==
    [][\A ap \in APs, gps \in Fixes :
          OnHandshake(ap, gps) =>
            LET r == OnHandshakeResult(Mem, options, titles, ap, gps)
            IN  /\ InSave("main")' <=> (~r.raised /\ r.gained > 0)
                /\ InSave("main")' =>
                      /\ travel_xp' = travel_xp + r.gained
                      /\ payload'["main"] = Payload(Mem')
                /\ ~InSave("main")' =>
                      /\ travel_xp' = travel_xp
                      /\ payload' = payload
                /\ doc' = doc]_vars

\* C8 witness: a scoring encounter has just begun its save, with an earlier
\* snapshot already on disk.
C8_Witness ==
    /\ pc["main"] = "wait"
    /\ doc.kind = "json"
    /\ payload["main"] # doc
    /\ travel_xp > doc.body.travel_xp
    /\ place_hashes # {}

\* The attributes the migration recognizes.
Recognized == SetFields \cup {"travel_xp", "travel_level", "last_place_hash"}

IsEmpty(v, k) ==
    IF k \in SetFields THEN v = {}
    ELSE IF k = "last_place_hash" THEN v = None
    ELSE v = 0

\* C9: legacy migration is strictly additive.  For every recognized field:
\* a local value that is non-empty / non-zero before the migration is
\* unchanged after it; an empty / zero one receives the legacy value when
\* the legacy document has the field (an empty set ends up holding every
\* legacy member and nothing else, a scalar is overwritten) and stays as it
\* is otherwise; nothing of unique_channels is copied.
C9_MigrationIsAdditive ==
    [][\A i \in 1..Len(LegacyDocs) :
          Migrate(LegacyDocs[i]) =>
            LET d == LegacyDocs[i]
            IN  \A k \in Recognized :
                   /\ ~IsEmpty(Mem[k], k) => Mem'[k] = Mem[k]
                   /\ IsEmpty(Mem[k], k) /\ k \notin DOMAIN d => Mem'[k] = Mem[k]
                   /\ IsEmpty(Mem[k], k) /\ k \in DOMAIN d =>
                         IF k \in SetFields
                         THEN Mem'[k] = Range(d[k])
                         ELSE Mem'[k] = d[k]]_vars

\* C9 witness: a migration has copied the legacy level and last place into
\* zero / empty local fields while the loaded, non-empty essid set and the
\* loaded experience were kept.
C9_Witness ==
    /\ pc["main"] = "wait"
    /\ travel_level = 3
    /\ travel_xp \notin {0, 199}
    /\ unique_essids # {}
    /\ "legacy" \notin unique_essids
    /\ doc.kind = "json"
    /\ doc.body.travel_level = 0

\* C10: persistence round trip.  The payload a save builds from the state
\* of the instance loads, into a fresh instance, to that same state (the
\* members of all five sets, lastPlace, experience and level), and a save
\* that succeeds leaves exactly its payload as the backing document.
C10_SaveThenLoadRoundTrip ==
    [][/\ \A t \in Threads :
             (pc[t] # "wait" /\ pc'[t] = "wait") =>
                LoadResult(FreshMem, payload'[t]) = Mem'
       /\ \A t \in Threads :
             WriteOk(t) => LoadResult(FreshMem, doc') = LoadResult(FreshMem, payload[t])
       /\ Load => Mem' = LoadResult(FreshMem, doc)]_vars

\* C10 witness: a fresh instance has just loaded a saved document and holds
\* non-empty sets, a last place and positive experience again.
C10_Witness ==
    /\ pc["main"] = "migrate"
    /\ doc.kind = "json"
    /\ Mem = LoadResult(FreshMem, doc)
    /\ travel_xp > 0
    /\ Cardinality(unique_essids) >= 2
    /\ unique_bssids # {}
    /\ unique_ouis # {}
    /\ unique_bands # {}
    /\ place_hashes # {}
    /\ last_place_hash # None

-----------------------------------------------------------------------------
(* C11 *)

\* The event thread alone, over restarts, with write failures and with
\* documents from elsewhere found at data_path when the plugin starts.
LoadNext ==
    \/ \E i \in 1..Len(ForeignDocs) : ForeignDocument(ForeignDocs[i])
    \/ Load
    \/ MigrateNothing
    \/ \E ap \in APs, gps \in Fixes : OnHandshake(ap, gps)
    \/ Acquire("main")
    \/ Open("main")
    \/ OpenFails("main")
    \/ WriteOk("main")
    \/ WriteFails("main")
    \/ Restart

LoadSpec == Init /\ [][LoadNext]_vars

\* load() on document d reaches its except clause: json.load raises, or a
\* conversion of a field does.
LoadFails(d) ==
    \/ d.kind \in {"empty", "partial"}
    \/ d.kind = "json" /\ \E i \in 1..Len(LoadOrder) : ~Assigned(d, i)

\* C11: load is all-or-nothing on failure: when reading or parsing the
\* document fails at any point, every field of the instance is left at its
\* default (load runs on a newly constructed instance).
C11_FailedLoadLeavesDefaults ==
    [][Load /\ LoadFails(doc) => Mem' = FreshMem]_vars

-----------------------------------------------------------------------------
(* A survey without GPS: one process, an empty ledger, no position *)

\* Channels around every edge of the classifier's ranges.
SurveyChannels ==
    {0, 1, 6, 14, 15, 31, 32, 36, 40, 100, 165, 173, 174, 177, 191, 192, 200,
     250, 251, 300}

\* Access points that differ in BSSID and channel; one has no channel and no
\* BSSID, one a channel that is no number.
SurveyAPs ==
    {[essid |-> "cafe", bssid |-> <<"aa", "bb", "cc", "01">>,
      channel |-> <<"int", ch>>] : ch \in SurveyChannels}
    \cup {[essid |-> "cafe", bssid |-> <<"aa", "bb", "cc", "02">>,
           channel |-> <<"int", ch>>] : ch \in {11, 44, 300}}
    \cup {[essid |-> "cafe"],
          [essid |-> "cafe", bssid |-> <<"aa", "bb", "cc", "02">>,
           channel |-> <<"str", "x">>]}

\* The plugin is loaded with no document and handles handshakes while no
\* candidate file gives a position; only the event thread runs and every
\* write succeeds.
SurveyNext ==
    \/ Load
    \/ MigrateNothing
    \/ \E ap \in SurveyAPs : OnHandshake(ap, NoFix)
    \/ Acquire("main")
    \/ Open("main")
    \/ WriteOk("main")

SurveySpec == Boot(Configs) /\ [][SurveyNext]_vars

\* ap.get('channel', '0')
ChannelOf(ap) == Get(ap, "channel", <<"str", "0">>)

Bands == {"2.4", "5", "6", "unk"}

-----------------------------------------------------------------------------
(* C12 *)

\* C12: in strict no-GPS mode with no position the place key of an encounter
\* is nogps-<band>: the encounter adds exactly that key to place_hashes, an
\* encounter whose band already has its key (whatever its BSSID and channel)
\* gets no place experience and leaves last_place_hash, a first one gets
\* xp_place; from an empty ledger place_hashes never has more than 4 members.
C12_StrictNoGpsPlacesAreBands ==
    /\ [][\A ap \in SurveyAPs :
            OnHandshake(ap, NoFix) /\ options.strict_nogps_places =>
                LET key == <<"nogps", channel_to_band(ChannelOf(ap))>>
                    r   == OnHandshakeResult(Mem, options, titles, ap, NoFix)
                    a   == AttributeChecks(Mem, options, ap)
                IN  /\ place_hashes' = place_hashes \cup {key}
                    /\ key \in place_hashes =>
                          /\ r.gained = a.gained
                          /\ last_place_hash' = last_place_hash
                    /\ key \notin place_hashes =>
                          /\ r.gained = a.gained + options.xp_place
                          /\ last_place_hash' = key]_vars
    /\ [](/\ place_hashes \subseteq {<<"nogps", b>> : b \in Bands}
          /\ Cardinality(place_hashes) <= 4)

\* Every band has its place, and the last encounter came from a BSSID and a
\* channel other than the ones that minted the place of its band.
C12_Witness ==
    /\ Cardinality(place_hashes) = 4
    /\ Cardinality(unique_bssids) = 2
    /\ pc["main"] = "idle"
    /\ doc = Payload(Mem)

-----------------------------------------------------------------------------
(* The progression engine on its own: experience added to an empty ledger *)

\* A table without threshold 0.
LateTitles == (100 :> "Nomad") @@ (300 :> "Voyager")

\* The title tables on_loaded can leave in self.titles: the default, two
\* overrides, and the empty table.
TitleTables == {DEFAULT_TITLES, CustomTitles, LateTitles, <<>>}

\* The experience is followed up to this value.
MaxXp == 5000

\* The amounts _add_xp is called with.
Gains == {1, 200, 2400}

\* _add_xp(n) on the instance.
AddXp(n) ==
    /\ pc["main"] = "idle"
    /\ travel_xp + n <= MaxXp
    /\ SetMem(add_xp(Mem, n, titles))
    /\ UNCHANGED <<cfgVars, doc, data_lock, pc, payload>>

ProgressNext ==
    \/ Load
    \/ MigrateNothing
    \/ \E n \in Gains : AddXp(n)

ProgressSpec ==
    Boot({<<tt, DefaultOptions>> : tt \in TitleTables}) /\ [][ProgressNext]_vars

-----------------------------------------------------------------------------
(* C13 *)

\* The thresholds of the table that the experience has reached.
Reached == {t \in DOMAIN titles : t <= travel_xp}

\* C13: after recomputation the level is the number of thresholds that are
\* at most the experience, minus one, floored at 0; the current title is the
\* title of the highest such threshold, the title at threshold 0 if there is
\* none, "Homebody" if the table has no threshold 0.  With the default table:
\* 0..199 is level 0 "Homebody", 200 is level 1 "Wanderling", 4800 and more
\* is level 5 "Globetrotter".
C13_LevelAndTitleFollowExperience ==
    /\ travel_level = Max(0, Cardinality(Reached) - 1)
    /\ \A t \in Reached :
          (\A u \in Reached : u <= t) => get_title(travel_xp, titles) = titles[t]
    /\ Reached = {} =>
          get_title(travel_xp, titles) =
              (IF 0 \in DOMAIN titles THEN titles[0] ELSE "Homebody")
    /\ titles = DEFAULT_TITLES =>
          /\ travel_xp \in 0..199 =>
                /\ travel_level = 0
                /\ get_title(travel_xp, titles) = "Homebody"
          /\ travel_xp = 200 =>
                /\ travel_level = 1
                /\ get_title(travel_xp, titles) = "Wanderling"
          /\ travel_xp >= 4800 =>
                /\ travel_level = 5
                /\ get_title(travel_xp, titles) = "Globetrotter"

\* The default table at the top threshold.
C13_Witness ==
    /\ titles = DEFAULT_TITLES
    /\ travel_xp = 4800
    /\ travel_level = 5
    /\ get_title(travel_xp, titles) = "Globetrotter"

-----------------------------------------------------------------------------
(* C14 *)

\* The band the claim gives an integer channel.
BandOfRange(n) ==
    IF 1 <= n /\ n <= 14 THEN "2.4"
    ELSE IF 32 <= n /\ n <= 173 THEN "5"
    ELSE IF 192 <= n /\ n <= 250 THEN "6"
    ELSE "unk"

\* The band the claim gives a raw channel value.
BandOfChannel(channel) ==
    IF IntParses(channel) THEN BandOfRange(IntOf(channel)) ELSE "unk"

\* C14: the band classifier is total: an integer channel is 2.4 exactly in
\* 1..14, 5 exactly in 32..173 (the enumerated channels all lie inside), 6
\* exactly in 192..250 and unk otherwise; a value that is no integer is unk.
\* Every encounter records that band.  6 is 2.4, 40 and 100 are 5, 200 is 6,
\* 300 is unk.
C14_BandClassifierIsTotal ==
    /\ [][\A ap \in SurveyAPs :
            OnHandshake(ap, NoFix) =>
                unique_bands' = unique_bands \cup {BandOfChannel(ChannelOf(ap))}]_vars
    /\ [](/\ \A n \in (0 - 5)..305 :
                channel_to_band(<<"int", n>>) = BandOfRange(n)
          /\ Enumerated5 \subseteq 32..173
          /\ channel_to_band(<<"str", "x">>) = "unk"
          /\ channel_to_band(<<"int", 6>>) = "2.4"
          /\ channel_to_band(<<"int", 40>>) = "5"
          /\ channel_to_band(<<"int", 100>>) = "5"
          /\ channel_to_band(<<"int", 200>>) = "6"
          /\ channel_to_band(<<"int", 300>>) = "unk"
          /\ unique_bands \subseteq Bands)

\* Encounters have been classified into each of the four bands.
C14_Witness ==
    /\ unique_bands = Bands
    /\ unique_essids = {"cafe"}

-----------------------------------------------------------------------------
(* A survey with GPS: one process, an empty ledger, a position at every
   encounter *)

\* travel_grid = 0.0001 and travel_grid = 0.00001 in the configuration.
FineGridOptions == [DefaultOptions EXCEPT !.travel_grid = 10]

FinestGridOptions == [DefaultOptions EXCEPT !.travel_grid = 1]

\* Positions the candidate files give: 37.773, 37.774 and 37.776 north at
\* 122.419 west, 37.773 north at 122.426 west, and four positions within
\* 0.0003 degree of the origin.
GridFixes ==
    { [fix |-> TRUE, lat |-> Coord(3777300), lon |-> Coord(-12241900)],
      [fix |-> TRUE, lat |-> Coord(3777400), lon |-> Coord(-12241900)],
      [fix |-> TRUE, lat |-> Coord(3777600), lon |-> Coord(-12241900)],
      [fix |-> TRUE, lat |-> Coord(3777300), lon |-> Coord(-12242600)],
      [fix |-> TRUE, lat |-> Coord(1), lon |-> Coord(0)],
      [fix |-> TRUE, lat |-> Coord(2), lon |-> Coord(0)],
      [fix |-> TRUE, lat |-> Coord(12), lon |-> Coord(0)],
      [fix |-> TRUE, lat |-> Coord(21), lon |-> Coord(0)] }

GridAP == [essid |-> "cafe"]

GridNext ==
    \/ Load
    \/ MigrateNothing
    \/ \E gps \in GridFixes : OnHandshake(GridAP, gps)
    \/ Acquire("main")
    \/ Open("main")
    \/ WriteOk("main")

GridSpec ==
    /\ Boot({<<DEFAULT_TITLES, DefaultOptions>>,
             <<DEFAULT_TITLES, FineGridOptions>>,
             <<DEFAULT_TITLES, FinestGridOptions>>})
    /\ [][GridNext]_vars

-----------------------------------------------------------------------------
(* C15 *)

\* The grid cell of a position: round(value / g) of both coordinates.
Cell(gps) ==
    <<RoundDiv(gps.lat.v, options.travel_grid),
      RoundDiv(gps.lon.v, options.travel_grid)>>

PlaceOf(gps) == compute_place_hash(options, GridAP, gps)

\* Two positions of one grid cell have the same key, and an encounter at a
\* position whose cell already has its place mints no new place.
SameCellSamePlace ==
    /\ [](\A p, q \in GridFixes : Cell(p) = Cell(q) => PlaceOf(p) = PlaceOf(q))
    /\ [][\A p \in GridFixes :
            OnHandshake(GridAP, p) =>
                /\ place_hashes' = place_hashes \cup {PlaceOf(p)}
                /\ \A q \in GridFixes :
                      Cell(p) = Cell(q) /\ PlaceOf(q) \in place_hashes =>
                          /\ place_hashes' = place_hashes
                          /\ last_place_hash' = last_place_hash]_vars

\* C15 as stated: with a position the place key is the coordinates quantized
\* to the grid g by round(value / g) * g; two positions that round to the
\* same cell give the same key (the second encounter mints no new place) and
\* two positions on either side of a cell boundary give different keys.
C15_CellsAreKeys ==
    /\ SameCellSamePlace
    /\ [][\A p \in GridFixes :
            OnHandshake(GridAP, p) =>
                \A q \in GridFixes :
                    Cell(p) # Cell(q) /\ PlaceOf(q) \notin place_hashes =>
                        PlaceOf(q) \notin place_hashes']_vars

\* C15 amended: the same, with different keys for different cells when the
\* grid is at least 0.0001 degree, the resolution of the key's four decimals.
C15_CellsAreKeysOnCoarseGrid ==
    /\ SameCellSamePlace
    /\ [](options.travel_grid >= 10 =>
            \A p, q \in GridFixes : Cell(p) # Cell(q) => PlaceOf(p) # PlaceOf(q))
    /\ [][\A p \in GridFixes :
            OnHandshake(GridAP, p) /\ options.travel_grid >= 10 =>
                \A q \in GridFixes :
                    Cell(p) # Cell(q) /\ PlaceOf(q) \notin place_hashes =>
                        PlaceOf(q) \notin place_hashes']_vars

\* On the default grid, encounters at 37.773, 37.774 (same cell) and 37.776
\* (the next cell) have minted two places.
C15_Witness ==
    /\ options.travel_grid = 1000
    /\ place_hashes =
          { <<"ll", Fixed4(3777000), Fixed4(0 - 12242000)>>,
            <<"ll", Fixed4(3778000), Fixed4(0 - 12242000)>> }
    /\ travel_xp = 2 + 2 + 10 + 10

-----------------------------------------------------------------------------
(* C16 *)

\* The thresholds of the table above the experience.
Ahead == {t \in DOMAIN titles : t > travel_xp}

\* C16: _prev_next_thresholds returns as prev the largest threshold that is
\* at most the experience (None if there is none) and as next the smallest
\* threshold above it; next is None exactly when the experience has reached
\* every threshold, and when both are there prev <= experience < next.
C16_ThresholdsBracketExperience ==
    LET r == prev_next_thresholds(travel_xp, titles)
    IN  /\ Reached = {} => r.prev = <<>>
        /\ \A t \in Reached : (\A u \in Reached : u <= t) => r.prev = <<t>>
        /\ Ahead = {} => r.next = <<>>
        /\ \A t \in Ahead : (\A u \in Ahead : t <= u) => r.next = <<t>>
        /\ r.next = <<>> <=> \A t \in DOMAIN titles : travel_xp >= t
        /\ r.prev # <<>> /\ r.next # <<>> =>
              r.prev[1] <= travel_xp /\ travel_xp < r.next[1]

\* The experience stands on a threshold of the default table: it is prev,
\* and the one after it is next.
C16_Witness ==
    /\ titles = DEFAULT_TITLES
    /\ travel_xp = 600
    /\ prev_next_thresholds(travel_xp, titles) = [prev |-> <<600>>, next |-> <<1200>>]

-----------------------------------------------------------------------------
(* C17 *)

\* What an encounter is due for the categories other than the band: the
\* rewards of the sets that do not hold what the encounter offers.
DueWithoutBand(ap, gps) ==
    LET off == Offered(options, ap, gps)
    IN  SumOver(Reward(options),
                {k \in SetFields \ {"unique_bands"} : off[k] \ Mem[k] # {}})

\* C17: the band unk is a band like the others: the first encounter
\* classified unk inserts unk into unique_bands and adds xp_band to the
\* call's gain; unk stays a member, and every later encounter classified unk
\* adds nothing for the band, so unk is awarded exactly once.
C17_UnknownBandAwardedOnce ==
    [][/\ "unk" \in unique_bands => "unk" \in unique_bands'
       /\ \A ap \in SurveyAPs :
             OnHandshake(ap, NoFix) /\ channel_to_band(ChannelOf(ap)) = "unk" =>
                LET r == OnHandshakeResult(Mem, options, titles, ap, NoFix)
                IN  /\ "unk" \in unique_bands'
                    /\ "unk" \notin unique_bands =>
                          r.gained = DueWithoutBand(ap, NoFix) + options.xp_band
                    /\ "unk" \in unique_bands =>
                          /\ r.gained = DueWithoutBand(ap, NoFix)
                          /\ unique_bands' = unique_bands]_vars

\* unk is a member next to a known band, and encounters from both BSSIDs
\* are behind us (channel 300 and the non-numeric channel are unk on both).
C17_Witness ==
    /\ {"unk", "5"} \subseteq unique_bands
    /\ <<"nogps", "unk">> \in place_hashes
    /\ Cardinality(unique_bssids) = 2
    /\ last_place_hash = <<"nogps", "5">>

-----------------------------------------------------------------------------
(* C18 *)

\* The experience equals the sum over the five categories of the category's
\* reward times the size of its set.
Accounted(m, opt) ==
    m.travel_xp =
        SumOver([k \in SetFields |-> Reward(opt)[k] * Cardinality(m[k])],
                SetFields)

\* C18: with fixed rewards, the experience is the sum over the categories of
\* reward times set size after any sequence of on_handshake calls on a ledger
\* that started empty: every call takes a ledger whose experience is that sum
\* to one whose experience is that sum.  Stated here for positive rewards.
C18_ExperienceIsSumOfRewards ==
    [][\A ap \in APs, gps \in Fixes :
          /\ OnHandshake(ap, gps)
          /\ \A k \in SetFields : Reward(options)[k] > 0
          /\ Accounted(Mem, options)
          => Accounted(Mem', options)]_vars

-----------------------------------------------------------------------------
(* C19 *)

\* The backing document holds the in-memory state: a new process would load
\* exactly this state from it.
Persisted == LoadResult(FreshMem, doc) = Mem

\* C19: write-through: after an on_handshake call has returned, its write (if
\* any) having succeeded, the backing document holds the in-memory state,
\* whatever the configured rewards are (zero and negative ones included): no
\* insertion into a set stays unpersisted.  Stated here for calls whose
\* evaluation raises nothing: a call that begins with the state persisted and
\* returns without saving leaves it persisted, and the event thread's write
\* persists the state.
C19_EveryInsertionIsPersisted ==
    [][/\ \A ap \in APs, gps \in Fixes :
             /\ OnHandshake(ap, gps)
             /\ ~OnHandshakeResult(Mem, options, titles, ap, gps).raised
             /\ Persisted
             /\ pc'["main"] = "idle"
             => Persisted'
       /\ WriteOk("main") => Persisted']_vars

-----------------------------------------------------------------------------
(* C20 *)

\* C20: no stale overwrite under concurrent saves: a snapshot taken before a
\* state change is never written after a snapshot taken after it, so that the
\* document equals the latest in-memory state once all saves have completed.
\* When the document holds the current state, a thread that opens the file
\* to write its payload writes that same state.
C20_NoStaleOverwrite ==
    [][\A t \in Threads :
          Open(t) /\ doc = Payload(Mem) => payload[t] = doc]_vars

=============================================================================
